---- MODULE Spec2Model ----
(***************************************************************************)
(* Model of src/formats/microdvd.rs (crate subparse): the MicroDVD (.sub)  *)
(* parser, the MdvdFile document, update_subtitle_entries and the          *)
(* canonicalising serializer to_data.                                      *)
(*                                                                         *)
(* A string is a sequence of one-character strings.  "BOM" stands for the  *)
(* single character U+FEFF.  The alphabet is ASCII, where to_lowercase and *)
(* to_uppercase map one character to one character.                        *)
(***************************************************************************)
EXTENDS Integers, Sequences, FiniteSets, TLC

\* ------------------------------------------------------------------ bounds

\* An input text has at most MaxLines physical lines.
MaxLines == 2

\* update_subtitle_entries is called with at most MaxEntries entries.
MaxEntries == 2

\* At most MaxUpdates calls of update_subtitle_entries in one run.
MaxUpdates == 2

\* The documents update_subtitle_entries is exercised on are parsed from at
\* most MaxUpdateLines physical lines.
MaxUpdateLines == 1

\* ------------------------------------------------------- character helpers

Digits == <<"0", "1", "2", "3", "4", "5", "6", "7", "8", "9">>

IsDigit(c) == \E d \in 1..10 : Digits[d] = c

DigitVal(c) == (CHOOSE d \in 1..10 : Digits[d] = c) - 1

\* char::is_uppercase
IsUppercase(c) == c \in {"Y", "B"}

\* char::to_lowercase
ToLowercase(c) == CASE c = "Y" -> "y" [] c = "B" -> "b" [] OTHER -> c

\* char::to_uppercase
ToUppercase(c) == CASE c = "y" -> "Y" [] c = "b" -> "B" [] OTHER -> c

\* many(satisfy(|x| x != c)): the length of the longest prefix of s without
\* the character c
RECURSIVE PrefixWithout(_, _)
PrefixWithout(s, c) ==
    IF s = <<>> \/ Head(s) = c THEN 0 ELSE 1 + PrefixWithout(Tail(s), c)

Drop(s, n) == SubSeq(s, n + 1, Len(s))

Take(s, n) == SubSeq(s, 1, n)

RECURSIVE Concat(_)
Concat(ss) == IF ss = <<>> THEN <<>> ELSE Head(ss) \o Concat(Tail(ss))

\* ------------------------------------------------------------ MdvdFormatting

LowercaseFirstChar(s) ==
    IF s = <<>> THEN <<>> ELSE <<ToLowercase(Head(s))>> \o Tail(s)

UppercaseFirstChar(s) ==
    IF s = <<>> THEN <<>> ELSE <<ToUppercase(Head(s))>> \o Tail(s)

\* impl From<String> for MdvdFormatting: the stored value of a tag
FormattingFrom(f) == LowercaseFirstChar(f)

\* a rendering that ignores the scope
ToFormattingStringLower(f, multiline) == LowercaseFirstChar(f)

ToFormattingString(f, multiline) ==
    IF multiline THEN UppercaseFirstChar(f) ELSE LowercaseFirstChar(f)

\* ------------------------------------------------------------------ parser

\* formats::common::split_bom: the text without a leading byte-order mark
SplitBom(i) == IF i # <<>> /\ Head(i) = "BOM" THEN Tail(i) ELSE i

\* str::lines: split at "\n", a final empty piece is no line, and a line's
\* trailing "\r" is not part of it
StripCr(l) == IF l # <<>> /\ l[Len(l)] = "\r" THEN Take(l, Len(l) - 1) ELSE l

RECURSIVE StrLines(_)
\* the line of the first n characters of s, then the lines behind its "\n"
LinesFrom(s, n) == <<StripCr(Take(s, n))>> \o StrLines(Drop(s, n + 1))

StrLines(s) == IF s = <<>> THEN <<>> ELSE LinesFrom(s, PrefixWithout(s, "\n"))

\* formats::common::number_i64: an optional '-' and one or more digits.
\* [ok, val, rest]
RECURSIVE DigitsValue(_, _)
DigitsValue(s, acc) ==
    IF s = <<>> \/ ~IsDigit(Head(s)) THEN [val |-> acc, rest |-> s]
    ELSE DigitsValue(Tail(s), 10 * acc + DigitVal(Head(s)))

NumberI64(s) ==
    LET neg == s # <<>> /\ Head(s) = "-"
        t   == IF neg THEN Tail(s) ELSE s
        d   == DigitsValue(t, 0)
    IN  IF t = <<>> \/ ~IsDigit(Head(t))
        THEN [ok |-> FALSE, val |-> 0, rest |-> s]
        ELSE [ok |-> TRUE, val |-> IF neg THEN 0 - d.val ELSE d.val,
              rest |-> d.rest]

\* char(c): [ok, rest]
ParseChar(s, c) ==
    IF s # <<>> /\ Head(s) = c THEN [ok |-> TRUE, rest |-> Tail(s)]
    ELSE [ok |-> FALSE, rest |-> s]

\* s starts with "{" and n characters other than "}" follow it: the info if
\* a "}" comes next, no match (and, by try, nothing consumed) at the end of s
SubInfoClosedAt(s, n) ==
    IF n = Len(s) - 1 THEN [ok |-> FALSE, val |-> <<>>, rest |-> s]
    ELSE [ok |-> TRUE, val |-> SubSeq(s, 2, n + 1), rest |-> Drop(s, n + 2)]

\* "{" [^}]* "}" : [ok, val, rest]
ParseSubInfo(s) ==
    IF s = <<>> \/ Head(s) # "{" THEN [ok |-> FALSE, val |-> <<>>, rest |-> s]
    ELSE SubInfoClosedAt(s, PrefixWithout(Tail(s), "}"))

\* one more info in front of the single line r
WithInfo(val, r) ==
    [fmts |-> <<val>> \o r.fmts, text |-> r.text, rest |-> r.rest]

\* many(satisfy(|c| c != '|')): the text is the first n characters of s
TextOnly(s, n) == [fmts |-> <<>>, text |-> Take(s, n), rest |-> Drop(s, n)]

RECURSIVE ParseSingleLine(_)
\* the single line at s, where i is what parse_sub_info finds at s
SingleLineAfter(s, i) ==
    IF i.ok THEN WithInfo(i.val, ParseSingleLine(i.rest))
    ELSE TextOnly(s, PrefixWithout(s, "|"))

\* many(try(parse_sub_info)) then many(satisfy(|c| c != '|')):
\* [fmts, text, rest]
ParseSingleLine(s) == SingleLineAfter(s, ParseSubInfo(s))

\* one more single line l in front of the list r
WithSingleLine(l, r) ==
    [val |-> <<[fmts |-> l.fmts, text |-> l.text]>> \o r.val, rest |-> r.rest]

RECURSIVE SepBySingleLines(_)
\* the list that starts with the single line l: more follow behind a '|'
SepByAfter(l) ==
    IF ParseChar(l.rest, "|").ok
    THEN WithSingleLine(l, SepBySingleLines(ParseChar(l.rest, "|").rest))
    ELSE WithSingleLine(l, [val |-> <<>>, rest |-> l.rest])

\* sep_by(parse_single_line, char('|')): [val, rest]
SepBySingleLines(s) == SepByAfter(ParseSingleLine(s))

IsContainerLineFormatting(f) == IF f = <<>> THEN FALSE ELSE IsUppercase(Head(f))

RECURSIVE MapFrom(_)
MapFrom(fs) ==
    IF fs = <<>> THEN <<>> ELSE <<FormattingFrom(Head(fs))>> \o MapFrom(Tail(fs))

IsSingleLineFormatting(f) == ~IsContainerLineFormatting(f)

\* the container-line formattings of all segments, in encounter order
RECURSIVE ClineFmts(_)
ClineFmts(segs) ==
    IF segs = <<>> THEN <<>>
    ELSE MapFrom(SelectSeq(Head(segs).fmts, IsContainerLineFormatting))
         \o ClineFmts(Tail(segs))

ConstructMdvdLines(start_frame, end_frame, segs) ==
    LET cline_fmts == ClineFmts(segs)
    IN  [k \in 1..Len(segs) |->
           [start_frame |-> start_frame,
            end_frame   |-> end_frame,
            text        |-> segs[k].text,
            formatting  |-> cline_fmts
                \o MapFrom(SelectSeq(segs[k].fmts, IsSingleLineFormatting))]]

\* the tuple parser of parse_container_line, before the map:
\* [ok, start_frame, end_frame, segs]
ContainerLineFields(s) ==
    LET c1 == ParseChar(s, "{")
        n1 == NumberI64(c1.rest)
        c2 == ParseChar(n1.rest, "}")
        c3 == ParseChar(c2.rest, "{")
        n2 == NumberI64(c3.rest)
        c4 == ParseChar(n2.rest, "}")
        ls == SepBySingleLines(c4.rest)
    IN  [ok |-> c1.ok /\ n1.ok /\ c2.ok /\ c3.ok /\ n2.ok /\ c4.ok
                /\ ls.rest = <<>>,
         start_frame |-> n1.val, end_frame |-> n2.val, segs |-> ls.val]

\* [ok, val]
ParseContainerLine(s) ==
    LET f == ContainerLineFields(s)
    IN  IF f.ok
        THEN [ok |-> TRUE,
              val |-> ConstructMdvdLines(f.start_frame, f.end_frame, f.segs)]
        ELSE [ok |-> FALSE, val |-> <<>>]

\* an error that counts lines from 1
GetLineOneBased(line_num, s) ==
    LET r == ParseContainerLine(s)
    IN  [ok |-> r.ok, val |-> r.val, line_num |-> line_num + 1]

\* get_line with handle_error: the line's sub-lines or ErrorAtLine(line_num)
GetLine(line_num, s) ==
    LET r == ParseContainerLine(s)
    IN  [ok |-> r.ok, val |-> r.val, line_num |-> line_num]

\* the loop of parse_file over lines[k..], result accumulated in acc; line
\* numbers count from 0
RECURSIVE ParseLoop(_, _, _)
\* one pass of the loop, r the result of get_line for lines[k]: `?` returns
\* its error, else the sub-lines are appended
ParseLoopStep(lines, k, acc, r) ==
    IF r.ok THEN ParseLoop(lines, k + 1, acc \o r.val)
    ELSE [ok |-> FALSE, fps |-> 0, v |-> <<>>, line_num |-> r.line_num]

ParseLoop(lines, k, acc) ==
    IF k > Len(lines) THEN [ok |-> TRUE, fps |-> 25, v |-> acc, line_num |-> 0]
    ELSE ParseLoopStep(lines, k, acc, GetLine(k - 1, lines[k]))

ParseFile(i) == ParseLoop(StrLines(SplitBom(i)), 1, <<>>)

\* --------------------------------------------------------------- to_data

\* the sort key (start_frame, end_frame), compared as a tuple
KeyLess(a, b) ==
    \/ a.start_frame < b.start_frame
    \/ a.start_frame = b.start_frame /\ a.end_frame < b.end_frame

SameKey(a, b) == a.start_frame = b.start_frame /\ a.end_frame = b.end_frame

\* sort_by_key is a stable sort: x goes behind every element whose key is
\* not greater than its own
RECURSIVE InsertByKey(_, _)
InsertByKey(s, x) ==
    IF s = <<>> THEN <<x>>
    ELSE IF KeyLess(x, Head(s)) THEN <<x>> \o s
    ELSE <<Head(s)>> \o InsertByKey(Tail(s), x)

\* a to_data that forgets to sort
KeepOrder(v) == v

RECURSIVE SortByKey(_)
SortByKey(v) ==
    IF v = <<>> THEN <<>>
    ELSE InsertByKey(SortByKey(Take(v, Len(v) - 1)), v[Len(v)])

\* itertools group_by: maximal runs of consecutive elements with one key
\* x in front of the groups rest: in the first group if it has x's key
GroupWith(x, rest) ==
    IF rest # <<>> /\ SameKey(Head(rest)[1], x)
    THEN <<(<<x>> \o Head(rest))>> \o Tail(rest)
    ELSE <<(<<x>>)>> \o rest

RECURSIVE GroupBy(_)
GroupBy(s) == IF s = <<>> THEN <<>> ELSE GroupWith(Head(s), GroupBy(Tail(s)))

\* line.formatting.into_iter().collect::<HashSet<_>>()
FormattingSet(line) == {line.formatting[i] : i \in 1..Len(line.formatting)}

RECURSIVE FoldUnion(_, _, _, _)
\* a fold that joins the sets instead of intersecting them
FoldUnion(sets, k, started, acc) ==
    IF k > Len(sets) THEN acc
    ELSE FoldUnion(sets, k + 1, TRUE, acc \cup sets[k])

\* the fold of lines 296-301 over sets[k..], acc = None is started = FALSE
RECURSIVE FoldIntersection(_, _, _, _)
FoldIntersection(sets, k, started, acc) ==
    IF k > Len(sets) THEN acc
    ELSE FoldIntersection(sets, k + 1, TRUE,
                          IF started THEN acc \cap sets[k] ELSE sets[k])

\* a to_data without the case of a group of one line
CommonOfEveryGroup(group_len, formattings) ==
    FoldIntersection(formattings, 1, FALSE, {})

CommonFormatting(group_len, formattings) ==
    IF group_len = 1 THEN {} ELSE FoldIntersection(formattings, 1, FALSE, {})

IndividualFormattings(formattings, common_formatting) ==
    [k \in 1..Len(formattings) |-> formattings[k] \ common_formatting]

\* the orders in which a HashSet may be iterated
RECURSIVE IterationOrders(_)
IterationOrders(S) ==
    IF S = {} THEN {<<>>}
    ELSE UNION {{<<x>> \o t : t \in IterationOrders(S \ {x})} : x \in S}

RECURSIVE SeqProduct(_)
SeqProduct(ss) ==
    IF ss = <<>> THEN {<<>>}
    ELSE {<<h>> \o t : h \in Head(ss), t \in SeqProduct(Tail(ss))}

Rendered(order, multiline) ==
    [i \in 1..Len(order) |-> ToFormattingString(order[i], multiline)]

\* what one pass of the group loop pushes for a group, for every iteration
\* order of its sets: the frames, the formattings pushed with multiline =
\* true, and per member the formattings pushed with multiline = false and
\* the text
GroupEmissions(group) ==
    LET formattings == [k \in 1..Len(group) |-> FormattingSet(group[k])]
        common      == CommonFormatting(Len(group), formattings)
        individual  == IndividualFormattings(formattings, common)
        members     == SeqProduct([k \in 1..Len(group) |->
                          {[fmts |-> Rendered(o, FALSE), text |-> group[k].text]
                             : o \in IterationOrders(individual[k])}])
    IN  {[start_frame |-> group[1].start_frame,
          end_frame   |-> group[1].end_frame,
          common      |-> Rendered(c, TRUE),
          members     |-> m] : c \in IterationOrders(common), m \in members}

\* every list of group emissions to_data may build for the lines v
ToDataEmissions(v) ==
    LET groups == GroupBy(SortByKey(v))
    IN  SeqProduct([g \in 1..Len(groups) |-> GroupEmissions(groups[g])])

\* i64::to_string
RECURSIVE NatToChars(_)
NatToChars(n) ==
    IF n < 10 THEN <<Digits[n + 1]>>
    ELSE NatToChars(n \div 10) \o <<Digits[(n % 10) + 1]>>

IntToChars(n) == IF n < 0 THEN <<"-">> \o NatToChars(0 - n) ELSE NatToChars(n)

Braced(fs) == Concat([i \in 1..Len(fs) |-> <<"{">> \o fs[i] \o <<"}">>])

MemberChars(members) ==
    Concat([i \in 1..Len(members) |->
              (IF i # 1 THEN <<"|">> ELSE <<>>)
              \o Braced(members[i].fmts) \o members[i].text])

\* the bytes of the result list: the pieces of all groups in order
Bytes(emissions) ==
    Concat([gi \in 1..Len(emissions) |->
              (IF gi # 1 THEN <<"\n">> ELSE <<>>)
              \o <<"{">> \o IntToChars(emissions[gi].start_frame) \o <<"}">>
              \o <<"{">> \o IntToChars(emissions[gi].end_frame) \o <<"}">>
              \o Braced(emissions[gi].common)
              \o MemberChars(emissions[gi].members)])

\* ---------------------------------------------- update_subtitle_entries

\* (secs_f64() * fps) as i64 for a time of ms milliseconds at fps = 25: the
\* product truncated toward zero
TimeToFrame(ms, fps) ==
    IF ms >= 0 THEN (ms * fps) \div 1000 ELSE 0 - ((0 - ms) * fps) \div 1000

NoLine == [some |-> FALSE, text |-> <<>>]

SomeLine(t) == [some |-> TRUE, text |-> t]

\* an update that overwrites the text with the empty string when the entry
\* has none
UpdatedLineTextAlways(line, entry, fps) ==
    [start_frame |-> TimeToFrame(entry.start, fps),
     end_frame   |-> TimeToFrame(entry.end, fps),
     formatting  |-> line.formatting,
     text        |-> entry.line.text]

\* the body of the loop, lines 255-262, for one line and its entry
UpdatedLine(line, entry, fps) ==
    [start_frame |-> TimeToFrame(entry.start, fps),
     end_frame   |-> TimeToFrame(entry.end, fps),
     formatting  |-> line.formatting,
     text        |-> IF entry.line.some THEN entry.line.text ELSE line.text]

\* an update without the assertion
EntriesLenUnchecked(n_entries, n_lines) == TRUE

\* assert_eq!(new_subtitle_entries.len(), self.v.len())
EntriesLenAsserted(n_entries, n_lines) == n_entries = n_lines

\* ----------------------------------------------------------------- inputs

F01 == <<"{", "0", "}", "{", "1", "}">>

F02 == <<"{", "0", "}", "{", "2", "}">>

\* what follows the two frame fields of a physical line
Bodies ==
    { <<>>,
      <<"x">>,
      <<"{", "y", "}", "x">>,
      <<"{", "Y", "}", "x">>,
      <<"{", "y", "}", "{", "b", "}", "x">>,
      <<"{", "y", "}", "x", "|", "{", "y", "}", "z">>,
      <<"{", "Y", "}", "x", "|", "z">>,
      <<"{", "1", "}", "x", "|", "{", "1", "}", "z">>,
      <<"{", "}", "x", "|", "{", "}", "z">>,
      <<"{", "1", "}", "|", "{", "1", "}", "{">>,
      <<"}">>,
      <<"{", "Y">> }

\* the physical lines an input text is made of; the last three do not match
\* the line grammar
LinePool ==
    {F01 \o b : b \in Bodies}
    \cup { F02 \o <<"{", "y", "}", "x">>,
           <<"{", "-", "1", "}", "{", "1", "0", "}", "{", "Y", "}", "z">>,
           <<>>,
           <<"x">>,
           <<"{", "0", "}", "{", "}", "x">> }

RECURSIVE JoinLines(_)
JoinLines(ls) ==
    IF ls = <<>> THEN <<>>
    ELSE IF Len(ls) = 1 THEN ls[1]
    ELSE ls[1] \o <<"\n">> \o JoinLines(Tail(ls))

\* a text: an optional byte-order mark, lines separated by "\n", an optional
\* final "\n"
Text(bom, ls, nl) ==
    (IF bom THEN <<"BOM">> ELSE <<>>) \o JoinLines(ls)
    \o (IF nl THEN <<"\n">> ELSE <<>>)

LineSeqs(n) == UNION {[1..k -> LinePool] : k \in 0..n}

Inputs == {Text(bom, ls, nl) : bom \in BOOLEAN, ls \in LineSeqs(MaxLines),
                               nl \in BOOLEAN}

\* the entries update_subtitle_entries is called with: times in milliseconds
EntryPool ==
    { [start |-> 0, end |-> 40, line |-> NoLine],
      [start |-> 40, end |-> 90, line |-> SomeLine(<<"u", "|", "w">>)] }

EntryLists == UNION {[1..k -> EntryPool] : k \in 0..MaxEntries}

\* ------------------------------------------------------------------ state

VARIABLES
    input,                  \* the text last handed to parse_from_string
    pc,                     \* "start", "ok" (a document exists), "err", "panic"
    file,                   \* the result of parse_file: [ok, fps, v, line_num]
    result,                 \* what the last to_data emitted
    op,                     \* the last operation
    canonical,              \* input is an output of to_data
    modified,               \* update_subtitle_entries changed file since parse
    new_subtitle_entries,   \* the argument of the last update call
    updates                 \* the number of update calls so far

vars == <<input, pc, file, result, op, canonical, modified,
          new_subtitle_entries, updates>>

NoFile == [ok |-> FALSE, fps |-> 0, v |-> <<>>, line_num |-> 0]

InitWith(texts) ==
    /\ input \in texts
    /\ pc = "start"
    /\ file = NoFile
    /\ result = <<>>
    /\ op = "init"
    /\ canonical = FALSE
    /\ modified = FALSE
    /\ new_subtitle_entries = <<>>
    /\ updates = 0

Init == InitWith(Inputs)

\* parse_from_string(input)
ParseFromString ==
    /\ pc = "start"
    /\ file' = ParseFile(input)
    /\ pc' = IF file'.ok THEN "ok" ELSE "err"
    /\ op' = "parse"
    /\ UNCHANGED <<input, result, canonical, modified, new_subtitle_entries,
                   updates>>

\* to_data(): one of the emissions the iteration orders allow
ToData ==
    /\ pc = "ok"
    /\ op # "to_data"
    /\ result' \in ToDataEmissions(file.v)
    /\ op' = "to_data"
    /\ UNCHANGED <<input, pc, file, canonical, modified, new_subtitle_entries,
                   updates>>

\* tests::mdvd_reconstruct on the bytes to_data returned: they are parsed as
\* a new document
Reconstruct ==
    /\ pc = "ok"
    /\ op = "to_data"
    /\ input' = Bytes(result)
    /\ file' = ParseFile(input')
    /\ pc' = IF file'.ok THEN "ok" ELSE "err"
    /\ op' = "reconstruct"
    /\ canonical' = TRUE
    /\ modified' = FALSE
    /\ UNCHANGED <<result, new_subtitle_entries, updates>>

\* the lines after the loop of update_subtitle_entries ran over the first n
\* lines
UpdatedLines(v, entries, fps, n) ==
    [k \in 1..Len(v) |->
       IF k <= n THEN UpdatedLine(v[k], entries[k], fps) ELSE v[k]]

Min(a, b) == IF a <= b THEN a ELSE b

\* update_subtitle_entries(entries): the assertion, then the loop; next() on
\* an exhausted iterator makes unwrap() panic
UpdateSubtitleEntries(entries) ==
    /\ pc = "ok"
    /\ updates < MaxUpdates
    /\ updates' = updates + 1
    /\ new_subtitle_entries' = entries
    /\ op' = "update"
    /\ IF EntriesLenAsserted(Len(entries), Len(file.v))
       THEN /\ file' = [file EXCEPT !.v =
                          UpdatedLines(file.v, entries, file.fps,
                                       Min(Len(entries), Len(file.v)))]
            /\ pc' = IF Len(entries) < Len(file.v) THEN "panic" ELSE "ok"
            /\ modified' = TRUE
       ELSE /\ pc' = "panic"
            /\ UNCHANGED <<file, modified>>
    /\ UNCHANGED <<input, result, canonical>>

Next ==
    \/ ParseFromString
    \/ ToData
    \/ Reconstruct

Spec == Init /\ [][Next]_vars

InitUpdate ==
    InitWith({Text(FALSE, ls, FALSE) : ls \in LineSeqs(MaxUpdateLines)})

NextUpdate ==
    \/ ParseFromString
    \/ ToData
    \/ Reconstruct
    \/ \E entries \in EntryLists : UpdateSubtitleEntries(entries)

SpecUpdate == InitUpdate /\ [][NextUpdate]_vars

\* ------------------------------------------------- vocabulary of the claims

\* the tags of a sub-line, as a set
Tags(line) == {line.formatting[i] : i \in 1..Len(line.formatting)}

\* the sub-lines of v with the pair (s, e), in the order of v
RunOf(v, s, e) ==
    SelectSeq(v, LAMBDA l : l.start_frame = s /\ l.end_frame = e)

\* the sequence q lists exactly the elements of S, each once
ListsOnce(q, S) == Len(q) = Cardinality(S) /\ {q[i] : i \in 1..Len(q)} = S

\* to_data has just run on the document
Serialized == pc = "ok" /\ op = "to_data"

\* the run of the document that the g-th container line stands for
RunOfLine(g) == RunOf(file.v, result[g].start_frame, result[g].end_frame)

\* the tags every member of a run holds
SharedTags(run) == {t \in Tags(run[1]) : \A k \in 1..Len(run) : t \in Tags(run[k])}

\* C3: a container line for a run of n > 1 sub-lines carries, group-scoped
\* (first character uppercased), exactly the intersection of the members' tag
\* sets, each tag once, and each member's segment carries, line-scoped (first
\* character lowercased), exactly its own tags minus that intersection.
C3_HoistsIntersection ==
    Serialized =>
      \A g \in 1..Len(result) :
        LET run == RunOfLine(g)
        IN  Len(run) > 1 =>
              /\ Len(result[g].members) = Len(run)
              /\ ListsOnce(result[g].common,
                           {UppercaseFirstChar(t) : t \in SharedTags(run)})
              /\ \A k \in 1..Len(run) :
                   ListsOnce(result[g].members[k].fmts,
                             {LowercaseFirstChar(t) :
                                t \in Tags(run[k]) \ SharedTags(run)})

\* a run of two members that share one tag while one of them holds another
C3_Witness ==
    /\ Serialized
    /\ \E g \in 1..Len(result) :
         /\ Len(RunOfLine(g)) > 1
         /\ result[g].common # <<>>
         /\ \E k \in 1..Len(result[g].members) :
              result[g].members[k].fmts # <<>>

PairLess(a, b) == a[1] < b[1] \/ (a[1] = b[1] /\ a[2] < b[2])

PairOfLine(g) == <<result[g].start_frame, result[g].end_frame>>

\* the tags a member of the g-th container line carries, as stored values
MemberTags(g, k) ==
    {LowercaseFirstChar(result[g].common[i]) : i \in 1..Len(result[g].common)}
    \cup {LowercaseFirstChar(result[g].members[k].fmts[i]) :
            i \in 1..Len(result[g].members[k].fmts)}

\* C4: to_data emits one container line per distinct (start_frame, end_frame)
\* pair of the document, in strictly ascending order of the pair, and the
\* members of a container line are the sub-lines with its pair, in their
\* order in the document; sub-lines with different pairs share no line.
C4_OneLinePerPair ==
    Serialized =>
      /\ {PairOfLine(g) : g \in 1..Len(result)}
           = {<<file.v[i].start_frame, file.v[i].end_frame>> :
                i \in 1..Len(file.v)}
      /\ \A g, h \in 1..Len(result) :
           g < h => PairLess(PairOfLine(g), PairOfLine(h))
      /\ \A g \in 1..Len(result) :
           LET run == RunOfLine(g)
           IN  /\ Len(result[g].members) = Len(run)
               /\ \A k \in 1..Len(run) :
                    /\ result[g].members[k].text = run[k].text
                    /\ MemberTags(g, k) = Tags(run[k])

\* two sub-lines with the same tags and different pairs, the later pair first
\* in the document
C4_Witness ==
    /\ Serialized
    /\ Len(result) = 2
    /\ \E i, j \in 1..Len(file.v) :
         /\ i < j
         /\ file.v[i].formatting = file.v[j].formatting
         /\ file.v[i].formatting # <<>>
         /\ file.v[j].end_frame < file.v[i].end_frame

\* C6: for a run of one sub-line to_data emits no group-scoped tag, and the
\* container line is the two frame fields, every tag of the sub-line once with
\* its first character lowercased, and the text.
C6_SingleNeverGroupScoped ==
    Serialized =>
      \A g \in 1..Len(result) :
        LET run == RunOfLine(g)
        IN  Len(run) = 1 =>
              /\ result[g].common = <<>>
              /\ Len(result[g].members) = 1
              /\ ListsOnce(result[g].members[1].fmts,
                           {LowercaseFirstChar(t) : t \in Tags(run[1])})
              /\ \A i \in 1..Len(result[g].members[1].fmts) :
                   LET f == result[g].members[1].fmts[i]
                   IN  f = <<>> \/ ~IsUppercase(f[1])
              /\ result[g].members[1].text = run[1].text
              /\ StrLines(Bytes(result))[g]
                   = <<"{">> \o IntToChars(run[1].start_frame) \o <<"}", "{">>
                     \o IntToChars(run[1].end_frame) \o <<"}">>
                     \o Braced(result[g].members[1].fmts) \o run[1].text

\* the input is the single segment "{0}{1}{Y}x", its tag written group-scoped
C6_Witness ==
    /\ Serialized
    /\ input = F01 \o <<"{", "Y", "}", "x">>
    /\ Len(result) = 1
    /\ result[1].members[1].fmts = <<(<<"y">>)>>

\* the text behind a byte-order mark
TextBody(t) == IF t # <<>> /\ t[1] = "BOM" THEN SubSeq(t, 2, Len(t)) ELSE t

NewlinesOf(t) == {i \in 1..Len(t) : t[i] = "\n"}

\* the number of physical lines: a final terminator starts no line
NumPhysicalLines(t) ==
    IF t = <<>> THEN 0
    ELSE Cardinality(NewlinesOf(t)) + (IF t[Len(t)] = "\n" THEN 0 ELSE 1)

\* the k-th physical line of t, k counted from 1
PhysicalLine(t, k) ==
    LET first == CHOOSE p \in 1..(Len(t) + 1) :
                   /\ Cardinality({i \in NewlinesOf(t) : i < p}) = k - 1
                   /\ (p = 1 \/ t[p - 1] = "\n")
        stop  == CHOOSE q \in first..(Len(t) + 1) :
                   /\ (q = Len(t) + 1 \/ t[q] = "\n")
                   /\ \A i \in first..(q - 1) : t[i] # "\n"
    IN  SubSeq(t, first, stop - 1)

IsInteger(q) ==
    LET d == IF q # <<>> /\ q[1] = "-" THEN Tail(q) ELSE q
    IN  d # <<>> /\ \A i \in 1..Len(d) : IsDigit(d[i])

\* "{" INT "}" "{" INT "}" SEGMENT ("|" SEGMENT)*: every string without a line
\* terminator is a list of segments, so the two frame fields decide
MatchesLineGrammar(l) ==
    \E i, j \in 2..Len(l) :
      /\ i < j
      /\ l[1] = "{" /\ l[i] = "}" /\ l[i + 1] = "{" /\ l[j] = "}"
      /\ IsInteger(SubSeq(l, 2, i - 1))
      /\ IsInteger(SubSeq(l, i + 2, j - 1))

BadLines(t) ==
    {k \in 1..NumPhysicalLines(t) : ~MatchesLineGrammar(PhysicalLine(t, k))}

SetMin(S) == CHOOSE x \in S : \A y \in S : x <= y

\* C7: parse fails iff some physical line of the input fails the line
\* grammar; the error then carries the number, counted from 0, of the first
\* such line, and no document is returned; otherwise a document is returned.
C7_ErrorIffBadLine ==
    op \in {"parse", "reconstruct"} =>
      LET bad == BadLines(TextBody(input))
      IN  /\ pc = "err" <=> bad # {}
          /\ pc = "ok" <=> bad = {}
          /\ pc = "ok" => file.ok
          /\ pc = "err" => /\ ~file.ok
                           /\ file.line_num = SetMin(bad) - 1
                           /\ file.v = <<>>

\* a valid first line, then an empty line: the error is at line 1
C7_Witness ==
    /\ op = "parse"
    /\ pc = "err"
    /\ file.line_num = 1
    /\ NumPhysicalLines(TextBody(input)) = 2
    /\ PhysicalLine(TextBody(input), 2) = <<>>

\* the tags written with an uppercase first character on a physical line
UpperTags(fields) ==
    UNION {{fields.segs[m].fmts[i] : i \in
              {n \in 1..Len(fields.segs[m].fmts) :
                 IsContainerLineFormatting(fields.segs[m].fmts[n])}}
           : m \in 1..Len(fields.segs)}

\* the tag written raw is emitted once, group-scoped, on the container line
\* of the pair (s, e) and in no segment of it
HoistedOnce(raw, s, e) ==
    \E g \in 1..Len(result) :
      /\ PairOfLine(g) = <<s, e>>
      /\ Cardinality({i \in 1..Len(result[g].common) :
                        result[g].common[i] = raw}) = 1
      /\ \A k \in 1..Len(result[g].members) :
           \A i \in 1..Len(result[g].members[k].fmts) :
             result[g].members[k].fmts[i] # LowercaseFirstChar(raw)

\* C5 as stated: after parse and to_data every tag written with an uppercase
\* first character is emitted once, group-scoped, on the container line of
\* its physical line and in no segment.
C5_UpperTagHoisted ==
    (Serialized /\ ~modified) =>
      \A k \in 1..NumPhysicalLines(TextBody(input)) :
        LET f == ContainerLineFields(PhysicalLine(TextBody(input), k))
        IN  \A raw \in UpperTags(f) :
              HoistedOnce(raw, f.start_frame, f.end_frame)

\* C5 amended: ... provided the run of the physical line's pair has at least
\* two sub-lines and each of them carries the tag.
C5_UpperTagHoistedInSharedRun ==
    (Serialized /\ ~modified) =>
      \A k \in 1..NumPhysicalLines(TextBody(input)) :
        LET f   == ContainerLineFields(PhysicalLine(TextBody(input), k))
            run == RunOf(file.v, f.start_frame, f.end_frame)
        IN  \A raw \in UpperTags(f) :
              (/\ Len(run) > 1
               /\ \A m \in 1..Len(run) :
                    LowercaseFirstChar(raw) \in Tags(run[m]))
              => HoistedOnce(raw, f.start_frame, f.end_frame)

\* "{0}{1}{Y}x|z" is emitted with its tag group-scoped
C5_Witness ==
    /\ Serialized
    /\ input = F01 \o <<"{", "Y", "}", "x", "|", "z">>
    /\ Len(result) = 1
    /\ result[1].common = <<(<<"Y">>)>>
    /\ Len(result[1].members) = 2

\* C1: the output of parse and to_data is a fixed point: it parses, and
\* to_data of what it parses to can emit the same bytes (the iteration order
\* of the tag sets is free).
C1_FixedPoint ==
    (Serialized /\ ~modified) =>
      LET out1 == Bytes(result)
          r    == ParseFile(out1)
      IN  /\ r.ok
          /\ \E e \in ToDataEmissions(r.v) : Bytes(e) = out1

SameSubLines(a, b) ==
    /\ Len(a) = Len(b)
    /\ \A i \in 1..Len(a) :
         /\ a[i].start_frame = b[i].start_frame
         /\ a[i].end_frame = b[i].end_frame
         /\ a[i].text = b[i].text
         /\ Tags(a[i]) = Tags(b[i])

\* a document parsed from an output of to_data is parsed again, from any
\* output of to_data for it, with the same sub-lines
CanonicalRoundTrip ==
    (pc = "ok" /\ op = "reconstruct") =>
      \A e \in ToDataEmissions(file.v) :
        LET r == ParseFile(Bytes(e))
        IN  r.ok /\ SameSubLines(r.v, file.v)

\* a tag emitted group-scoped is, after parsing the output, a tag of every
\* member of the run
HoistedTagKept ==
    (Serialized /\ ~modified) =>
      LET r == ParseFile(Bytes(result))
      IN  /\ r.ok
          /\ \A g \in 1..Len(result) :
               LET run == RunOf(r.v, result[g].start_frame, result[g].end_frame)
               IN  result[g].common # <<>> =>
                     /\ Len(run) = Len(result[g].members)
                     /\ \A i \in 1..Len(result[g].common) :
                          \A m \in 1..Len(run) :
                            LowercaseFirstChar(result[g].common[i])
                              \in Tags(run[m])

\* C2: the round trip of a canonical document is lossless, and in particular
\* a hoisted tag is still a tag of every member of its run after re-parsing,
\* whatever its first character is.
C2_RoundTripLossless == CanonicalRoundTrip /\ HoistedTagKept

\* a step is a call of update_subtitle_entries
UpdateStep == updates' # updates

\* C8: a call with as many entries as the document has sub-lines returns
\* normally and changes only start_frame, end_frame and text: the number and
\* order of the sub-lines, every tag list and the frame rate stay, and the
\* text of sub-line i becomes the text of entry i if it has one and stays
\* otherwise.
C8_UpdateTouchesTimesAndText ==
    [][(UpdateStep /\ Len(new_subtitle_entries') = Len(file.v)) =>
         /\ pc' = "ok"
         /\ file'.ok = file.ok
         /\ file'.fps = file.fps
         /\ Len(file'.v) = Len(file.v)
         /\ \A i \in 1..Len(file.v) :
              /\ file'.v[i].formatting = file.v[i].formatting
              /\ file'.v[i].text =
                   IF new_subtitle_entries'[i].line.some
                   THEN new_subtitle_entries'[i].line.text
                   ELSE file.v[i].text]_vars

\* an update of two tagged sub-lines went through, one entry with a text and
\* one without; the sub-line of the latter still has its parsed text
C8_Witness ==
    /\ op = "update"
    /\ pc = "ok"
    /\ Len(file.v) = 2
    /\ new_subtitle_entries[1].line.some
    /\ ~new_subtitle_entries[2].line.some
    /\ file.v[1].text = new_subtitle_entries[1].line.text
    /\ file.v[2].text = <<"z">>
    /\ file.v[1].formatting # <<>>
    /\ file.v[2].end_frame = 1

\* C9: a call with a number of entries different from the number of sub-lines
\* fails and leaves the document as it was.
C9_MismatchChangesNothing ==
    [][(UpdateStep /\ Len(new_subtitle_entries') # Len(file.v)) =>
         /\ pc' = "panic"
         /\ file' = file]_vars

\* a call with fewer entries than sub-lines, but at least one, has failed,
\* and the first sub-line still has its parsed frames and text
C9_Witness ==
    /\ op = "update"
    /\ pc = "panic"
    /\ Len(new_subtitle_entries) = 1
    /\ Len(file.v) = 2
    /\ new_subtitle_entries[1].line.some
    /\ file.v[1].text = <<"x">>
    /\ file.v[1].end_frame = 1

\* C10: no sub-line's text of a reachable document contains '|' or a line
\* terminator, and parsing any output of to_data yields as many sub-lines as
\* the document has.
C10_NoSeparatorInText ==
    pc = "ok" =>
      /\ \A i \in 1..Len(file.v) :
           \A j \in 1..Len(file.v[i].text) :
             file.v[i].text[j] \notin {"|", "\n"}
      /\ \A e \in ToDataEmissions(file.v) :
           Len(ParseFile(Bytes(e)).v) = Len(file.v)

====
